---- MODULE Spec2Model ----
(***************************************************************************)
(* PytorchTensorRTParser (converter/pytorch/pytorch_trt_parser.py): the    *)
(* walk of gen_IR over the source graph, the per-operator rename_*         *)
(* routines gated by is_main, and the finalization done by gen_IR and run. *)
(*                                                                         *)
(* The source graph (converter/pytorch/pytorch_graph.py) is an external    *)
(* collaborator.  Its nodes are handed to the walk one by one in visiting  *)
(* order; node i carries the name Name(i) and its in_edges name nodes that *)
(* were handed out before it.                                              *)
(*                                                                         *)
(* SpecFuse is the fusion pass of __init__ (fuse_all_conv_bn) over the     *)
(* children of the torch model, one step per child of each for loop.      *)
(***************************************************************************)
EXTENDS Integers, Sequences, FiniteSets, TLC

\* Largest number of nodes of a source graph.
MaxNodes == 4
\* Largest number of designated outputs of a source graph.
MaxOutputs == 1

\* Largest number of children of the torch model handed to the parser.
MaxChildren == 3

\* Largest number of children of a container that is a child of the model.
MaxNested == 2

\* Largest number of parsers constructed with fuse set over one model.
MaxPasses == 2

VARIABLES
    pytorch_graph,  \* facts of the immutable source graph: size, acyclic, output_layers
    pc,             \* position inside run / gen_IR
    idx,            \* number of nodes the for loop of gen_IR has taken
    current_node,   \* the node of the current loop iteration
    named_node,     \* self.named_node: real name -> source node
    main_layers,    \* self.main_layers: sequence of caffe LayerParameter records
    named_layer,    \* self.named_layer: node name -> target handle
    network,        \* layers and inputs added to self.network, in creation order
    marked,         \* tensors passed to network.mark_output
    weights,        \* self.weights (Parser.set_weight): layer name -> set of roles
    warnings,       \* records logged through logging.warning
    printed,        \* exceptions printed by the except clause of gen_IR
    exc,            \* the exception in flight, "None" when there is none
    proto_files,    \* contents written to dest_path + "_debug.prototxt", in order
    trt_files,      \* contents written to dest_path + ".trt", in order
    fuse,           \* self.fuse
    model,          \* self.model: the named children of the torch model, in order
    given_model,    \* the model as it was handed to the first __init__ (never written)
    passes,         \* number of calls of fuse_all_conv_bn(self.model) made so far
    frames          \* the activations of fuse_all_conv_bn, the innermost last

fusion_vars == <<fuse, model, given_model, passes, frames>>

vars == <<pytorch_graph, pc, idx, current_node, named_node, main_layers, named_layer,
          network, marked, weights, warnings, printed, exc, proto_files, trt_files,
          fuse, model, given_model, passes, frames>>

(***************************************************************************)
(* Names.  A name is a sequence of characters, so that str.replace works   *)
(* on it character by character.                                           *)
(***************************************************************************)
Digit == <<"1", "2", "3", "4", "5", "6", "7", "8", "9">>

Name(i) == IF i % 2 = 0 THEN <<"n", ".", Digit[i]>> ELSE <<"n", Digit[i]>>

Range(s) == {s[k] : k \in DOMAIN s}

\* Python s[a:b] on a list (0-based, b exclusive, clipped to the length).
Slice(s, a, b) == SubSeq(s, a + 1, IF b < Len(s) THEN b ELSE Len(s))

\* Python name.replace(".", "").
replace_dot(name) == SelectSeq(name, LAMBDA c : c # ".")

NoNode == [name |-> <<>>, real_name |-> <<>>, type |-> "", in_edges |-> <<>>,
           attrs |-> [none |-> 0], params |-> {}, output_shape |-> <<>>]

EmptyAttrs == [k \in {} |-> 0]

(***************************************************************************)
(* The category lookup table and the routines the parser class defines.    *)
(***************************************************************************)
layer_map ==
    ("Data" :> "Data") @@ ("onnx::Conv" :> "Conv") @@ ("onnx::Sigmoid" :> "Sigmoid") @@
    ("onnx::PRelu" :> "PRelu") @@ ("onnx::BatchNormalization" :> "BatchNormalization") @@
    ("onnx::Relu" :> "Relu") @@ ("onnx::MaxPool" :> "MaxPool") @@ ("onnx::Add" :> "Add") @@
    ("onnx::AveragePool" :> "AveragePool") @@
    ("onnx::GlobalAveragePool" :> "GlobalAveragePool") @@
    ("onnx::Flatten" :> "Flatten") @@ ("onnx::Gemm" :> "FullyConnected") @@
    ("onnx::Dropout" :> "Dropout") @@ ("onnx::LogSoftmax" :> "Softmax") @@
    ("onnx::Transpose" :> "Permute") @@ ("onnx::Upsample" :> "Upsample") @@
    ("onnx::Concat" :> "Concat") @@ ("onnx::Unsqueeze" :> "Unsqueeze") @@
    ("onnx::Clip" :> "Clip") @@ ("onnx::Pad" :> "Pad") @@
    ("onnx::HardSwish" :> "HardSwish") @@ ("onnx::HardSigmoid" :> "HardSigmoid") @@
    ("onnx::Mul" :> "Mul") @@ ("onnx::Slice" :> "Slice") @@ ("onnx::Softmax" :> "Softmax") @@
    ("onnx::Constant" :> "Common") @@ ("onnx::Reshape" :> "Reshape") @@
    ("onnx::Split" :> "Split") @@ ("onnx::LpNormalization" :> "LpNormalization") @@
    ("prim::Constant" :> "Constant") @@ ("onnx::LeakyRelu" :> "LeakyRelu") @@
    ("onnx::Resize" :> "Resize") @@ ("onnx::ReduceMean" :> "ReduceMean") @@
    ("onnx::BilinearInterpolate" :> "BilinearInterpolate") @@
    ("onnx::Shape" :> "Common") @@ ("onnx::Gather" :> "Gather") @@
    ("onnx::Sub" :> "Common") @@ ("onnx::MaxUnpool" :> "MaxUnPool") @@
    ("onnx::ConvTranspose" :> "ConvTranspose") @@ ("onnx::Cast" :> "Common") @@
    ("onnx::ConstantOfShape" :> "Common") @@ ("onnx::Div" :> "Common")

\* The names X for which the class has a method rename_X (hasattr in gen_IR).
RenameMethods ==
    {"Common", "Data", "Conv", "Relu", "MaxPool", "Add", "GlobalAveragePool", "Flatten",
     "FullyConnected", "Sigmoid", "ReduceSum", "Div", "Mul", "ConvTranspose", "Concat",
     "Reshape", "Permute", "Resize", "AveragePool", "Gather", "BatchNormalization",
     "Softmax", "Clip", "HardSigmoid", "HardSwish"}

(***************************************************************************)
(* Source nodes.  NodeAt(i) is the set of nodes the graph may hold at      *)
(* position i of the visiting order.  params is the set of roles the       *)
(* state_dict holds under the node's weights_name.                         *)
(***************************************************************************)
Earlier(i) == {Name(j) : j \in 1..(i - 1)}

Node(i, type, in_edges, attrs, params, output_shape) ==
    [name |-> Name(i), real_name |-> Name(i), type |-> type, in_edges |-> in_edges,
     attrs |-> attrs, params |-> params, output_shape |-> output_shape]

Pads == {<<1, 2>>, <<1, 2, 3, 4>>}

ConvAttrs == {[pads |-> p, strides |-> <<2, 2>>, kernel_shape |-> <<3, 3>>] : p \in Pads}

MaxPoolAttrs ==
    {[pads |-> p, strides |-> <<2, 2>>, kernel_shape |-> <<3, 3>>] : p \in Pads}
    \cup {[pads |-> <<1, 2>>, kernel_shape |-> <<3, 3>>],
          [pads |-> <<1, 2>>, strides |-> <<2, 2>>]}

ResizeAttrs ==
    {[scale_factor |-> <<2>>, mode |-> "nearest", coordinate_transformation_mode |-> c,
      nearest_mode |-> m] :
        <<c, m>> \in {<<"asymmetric", "floor">>, <<"pytorch_half_pixel", "floor">>,
                      <<"align_corners", "floor">>, <<"asymmetric", "round_prefer_floor">>}}

\* type, attrs, params and output_shape of the nodes that take no input
NoInputKinds ==
    {<<"Data", EmptyAttrs, {}, <<1, 3, 8, 8>> >>,
     <<"onnx::Constant", EmptyAttrs, {}, <<>> >>}

\* ... of the nodes that take one input
UnaryKinds ==
    {<<"onnx::Conv", a, {"weight"}, <<>> >> : a \in ConvAttrs}
    \cup {<<"onnx::Conv", [pads |-> <<1, 2>>, strides |-> <<2, 2>>,
                           kernel_shape |-> <<3, 3>>], {"weight", "bias"}, <<>> >>}
    \cup {<<"onnx::Relu", EmptyAttrs, {}, <<>> >>}
    \cup {<<"onnx::MaxPool", a, {}, <<>> >> : a \in MaxPoolAttrs}
    \cup {<<"onnx::Flatten", EmptyAttrs, {}, <<>> >>}
    \cup {<<"onnx::Resize", a, {}, <<>> >> : a \in ResizeAttrs}
    \cup {<<"onnx::ConvTranspose", a, {"weight"}, <<>> >> : a \in ConvAttrs}
    \cup {<<"onnx::Transpose", [perm |-> <<0, 2, 3, 1>>], {}, <<>> >>}
    \cup {<<"onnx::Reshape", [shape |-> <<1, 0 - 1>>], {}, <<>> >>,
          <<"onnx::Reshape", EmptyAttrs, {}, <<>> >>}
    \cup {<<"onnx::Cast", EmptyAttrs, {}, <<>> >>,
          <<"onnx::Dropout", EmptyAttrs, {}, <<>> >>,
          <<"onnx::Erf", EmptyAttrs, {}, <<>> >>}

\* ... of the nodes that take two inputs
BinaryKinds ==
    {<<"onnx::Add", EmptyAttrs, {}, <<>> >>,
     <<"onnx::Mul", EmptyAttrs, {}, <<>> >>,
     <<"onnx::Mul", [scale |-> <<2>>], {}, <<>> >>,
     <<"onnx::Concat", [axis |-> 1], {}, <<>> >>}

NodeAt(i) ==
    {Node(i, k[1], <<>>, k[2], k[3], k[4]) : k \in NoInputKinds}
    \cup {Node(i, k[1], <<a>>, k[2], k[3], k[4]) : k \in UnaryKinds, a \in Earlier(i)}
    \cup {Node(i, k[1], <<a, b>>, k[2], k[3], k[4]) :
            k \in BinaryKinds, a \in Earlier(i), b \in Earlier(i)}

NodeTypes == {k[1] : k \in NoInputKinds \cup UnaryKinds \cup BinaryKinds}

\* The lists of designated outputs of a graph of n nodes.
OutputLists(n) ==
    {s \in UNION {[1..k -> {Name(j) : j \in 1..n}] : k \in 1..MaxOutputs} :
        \A p, q \in DOMAIN s : p # q => s[p] # s[q]}

(***************************************************************************)
(* The translation state a routine reads and returns, and the target       *)
(* builder.  A handle is the tensor add_input returns (ITensor) or a layer *)
(* (ILayer); id is the position of its entry in the network.               *)
(***************************************************************************)
Cur ==
    [main_layers |-> main_layers, named_layer |-> named_layer, network |-> network,
     weights |-> weights, warnings |-> warnings, exc |-> "None"]

Raise(st, e) == [st EXCEPT !.exc = e]

ITensor(k) == [kind |-> "ITensor", id |-> k]

ILayer(k) == [kind |-> "ILayer", id |-> k]

\* pb2.LayerParameter() with name, type, top and bottom filled in
LayerParameter(name, type, top, bottom) ==
    [name |-> name, type |-> type, top |-> top, bottom |-> bottom]

\* self.network.add_<op>(...): a new entry, not yet named
add_layer(st, op, inputs, params) ==
    [st EXCEPT !.network =
        Append(@, [op |-> op, name |-> <<>>, inputs |-> inputs, params |-> params])]

\* layer.name = source_node.name, for the entry created last
set_name(st, name) ==
    [st EXCEPT !.network = [@ EXCEPT ![Len(@)] = [@ EXCEPT !.name = name]]]

\* Parser.set_weight(layer_name, weight_name, data)
set_weight(st, layer_name, weight_name) ==
    [st EXCEPT !.weights =
        (layer_name :> ((IF layer_name \in DOMAIN @ THEN @[layer_name] ELSE {})
                        \cup {weight_name})) @@ @]

\* self.named_layer[name].get_output(0): the tensor, or the exception raised
get_output(st, name) ==
    IF name \notin DOMAIN st.named_layer THEN [exc |-> "KeyError", tensor |-> 0]
    ELSE IF st.named_layer[name].kind = "ITensor"
         THEN [exc |-> "AttributeError", tensor |-> 0]
         ELSE [exc |-> "None", tensor |-> st.named_layer[name].id]

\* the isinstance(..., ITensor) test of rename_Conv and rename_Reshape
tensor_of(st, name) ==
    IF name \notin DOMAIN st.named_layer THEN [exc |-> "KeyError", tensor |-> 0]
    ELSE [exc |-> "None", tensor |-> st.named_layer[name].id]

\* self.main_layers.append(caffe_layer)
append_layer(st, layer) == [st EXCEPT !.main_layers = Append(@, layer)]

\* self.named_layer[name] = handle
register(st, name, handle) == [st EXCEPT !.named_layer = (name :> handle) @@ @]

\* emit registering the new handle under the input's name
emit_under_input(st, node, type, bottom) ==
    register(append_layer(st, LayerParameter(node.name, type, <<node.name>>, bottom)),
             bottom[1], ILayer(Len(st.network)))

\* emit appending the record without registering the handle
emit_record_only(st, node, type, bottom) ==
    append_layer(st, LayerParameter(node.name, type, <<node.name>>, bottom))

\* the tail shared by the routines: the caffe record, then the handle of the
\* layer created last
emit(st, node, type, bottom) ==
    register(append_layer(st, LayerParameter(node.name, type, <<node.name>>, bottom)),
             node.name, ILayer(Len(st.network)))

\* is_main looking the inputs up among the visited nodes instead of main_layers
is_main_visited(inputs) == \A k \in DOMAIN inputs : inputs[k] \in DOMAIN named_node

is_main(inputs) ==
    \A k \in DOMAIN inputs :
        \E l \in DOMAIN main_layers : inputs[k] \in Range(main_layers[l].top)

\* pads taking the last two of four values
pads_of_last_two(attr) ==
    IF Len(attr.pads) = 4 THEN <<attr.pads[3], attr.pads[4]>>
    ELSE IF Len(attr.pads) = 2 THEN <<attr.pads[1], attr.pads[2]>>
    ELSE <<>>

\* the pads of rename_Conv, rename_MaxPool and rename_ConvTranspose; <<>> when
\* neither branch binds the local
pads_of(attr) ==
    IF Len(attr.pads) = 4 THEN <<attr.pads[1], attr.pads[2]>>
    ELSE IF Len(attr.pads) = 2 THEN <<attr.pads[1], attr.pads[2]>>
    ELSE <<>>

pads_bound(attr) == Len(attr.pads) \in {2, 4}

pair_or_none(attr, key) ==
    IF key \in DOMAIN attr THEN <<attr[key][1], attr[key][2]>> ELSE <<>>

(***************************************************************************)
(* The translation routines.  Each returns the translation state it leaves *)
(* behind, with exc set when it raises; effects made before the raise stay.*)
(***************************************************************************)
\* rename_Common logging nothing
rename_Common_silent(node) == Cur

rename_Common(node) ==
    [Cur EXCEPT !.warnings = Append(@, [type |-> node.type, name |-> node.name])]

rename_Data(node) ==
    LET st1 == set_name(add_layer(Cur, "input", <<>>, [shape |-> node.output_shape]),
                        node.name)
        st2 == append_layer(st1, LayerParameter(node.name, "Input", <<node.name>>, <<>>))
    IN  register(st2, node.name, ITensor(Len(st1.network)))

rename_Conv(node) ==
    IF ~is_main(Slice(node.in_edges, 0, 1)) THEN Cur
    ELSE IF "pads" \notin DOMAIN node.attrs THEN Raise(Cur, "KeyError")
    ELSE IF "weight" \notin node.params THEN Raise(Cur, "KeyError")
    ELSE
      LET attr == node.attrs
          st1 == set_weight(Cur, node.name, "weights")
      IN  IF Len(node.in_edges) < 1 THEN Raise(st1, "IndexError")
          ELSE
            LET in0 == tensor_of(st1, node.in_edges[1])
                st2 == add_layer(st1, "convolution", <<in0.tensor>>,
                          [kernel_shape |-> pair_or_none(attr, "kernel_shape"),
                           bias |-> "bias" \in node.params,
                           stride |-> pair_or_none(attr, "strides"),
                           padding |-> pads_of(attr)])
            IN  IF in0.exc # "None" THEN Raise(st1, in0.exc)
                ELSE IF ~pads_bound(attr) THEN Raise(st2, "UnboundLocalError")
                ELSE emit(set_name(st2, node.name), node, "Convolution",
                          <<node.in_edges[1]>>)

\* rename_Relu appending the node's own name as the bottom of its record
rename_Relu_self_bottom(node) ==
    IF ~is_main(Slice(node.in_edges, 0, 1)) THEN Cur
    ELSE IF Len(node.in_edges) < 1 THEN Raise(Cur, "IndexError")
    ELSE
      LET in0 == get_output(Cur, node.in_edges[1])
          st1 == set_name(add_layer(Cur, "activation", <<in0.tensor>>, [type |-> "RELU"]),
                          node.name)
      IN  IF in0.exc # "None" THEN Raise(Cur, in0.exc)
          ELSE emit(st1, node, "ReLU", <<node.name>>)

rename_Relu(node) ==
    IF ~is_main(Slice(node.in_edges, 0, 1)) THEN Cur
    ELSE IF Len(node.in_edges) < 1 THEN Raise(Cur, "IndexError")
    ELSE
      LET in0 == get_output(Cur, node.in_edges[1])
          st1 == set_name(add_layer(Cur, "activation", <<in0.tensor>>, [type |-> "RELU"]),
                          node.name)
      IN  IF in0.exc # "None" THEN Raise(Cur, in0.exc)
          ELSE emit(st1, node, "ReLU", <<node.in_edges[1]>>)

rename_MaxPool(node) ==
    IF ~is_main(Slice(node.in_edges, 0, 1)) THEN Cur
    ELSE IF "pads" \notin DOMAIN node.attrs THEN Raise(Cur, "KeyError")
    ELSE IF "strides" \notin DOMAIN node.attrs THEN Raise(Cur, "UnboundLocalError")
    ELSE IF "kernel_shape" \notin DOMAIN node.attrs THEN Raise(Cur, "UnboundLocalError")
    ELSE IF Len(node.in_edges) < 1 THEN Raise(Cur, "IndexError")
    ELSE
      LET attr == node.attrs
          in0 == get_output(Cur, node.in_edges[1])
          st1 == add_layer(Cur, "pooling", <<in0.tensor>>,
                    [type |-> "MAX", window_size |-> pair_or_none(attr, "kernel_shape"),
                     stride |-> pair_or_none(attr, "strides"), padding |-> pads_of(attr)])
      IN  IF in0.exc # "None" THEN Raise(Cur, in0.exc)
          ELSE IF ~pads_bound(attr) THEN Raise(st1, "UnboundLocalError")
          ELSE emit(set_name(st1, node.name), node, "Pooling", <<node.in_edges[1]>>)

rename_Add(node) ==
    IF ~is_main(Slice(node.in_edges, 0, 2)) THEN Cur
    ELSE IF Len(node.in_edges) < 1 THEN Raise(Cur, "IndexError")
    ELSE
      LET in0 == get_output(Cur, node.in_edges[1]) IN
      IF in0.exc # "None" THEN Raise(Cur, in0.exc)
      ELSE IF Len(node.in_edges) < 2 THEN Raise(Cur, "IndexError")
      ELSE
        LET in1 == get_output(Cur, node.in_edges[2])
            st1 == set_name(add_layer(Cur, "elementwise", <<in0.tensor, in1.tensor>>,
                                      [op |-> "SUM"]), node.name)
        IN  IF in1.exc # "None" THEN Raise(Cur, in1.exc)
            ELSE emit(st1, node, "Eltwise", <<node.in_edges[1], node.in_edges[2]>>)

\* rename_Flatten without its is_main gate
rename_Flatten_ungated(node) ==
    IF Len(node.in_edges) < 1 THEN Raise(Cur, "IndexError")
    ELSE
      LET st1 == append_layer(Cur, LayerParameter(node.name, "Flatten", <<node.name>>,
                                                  <<node.in_edges[1]>>))
      IN  IF node.in_edges[1] \notin DOMAIN st1.named_layer THEN Raise(st1, "KeyError")
          ELSE register(st1, node.name, st1.named_layer[node.in_edges[1]])

rename_Flatten(node) ==
    IF ~is_main(Slice(node.in_edges, 0, 1)) THEN Cur
    ELSE IF Len(node.in_edges) < 1 THEN Raise(Cur, "IndexError")
    ELSE
      LET st1 == append_layer(Cur, LayerParameter(node.name, "Flatten", <<node.name>>,
                                                  <<node.in_edges[1]>>))
      IN  IF node.in_edges[1] \notin DOMAIN st1.named_layer THEN Raise(st1, "KeyError")
          ELSE register(st1, node.name, st1.named_layer[node.in_edges[1]])

rename_Mul(node) ==
    IF ~is_main(Slice(node.in_edges, 0, 1)) THEN Cur
    ELSE IF Len(node.in_edges) < 1 THEN Raise(Cur, "IndexError")
    ELSE
      LET in0 == get_output(Cur, node.in_edges[1]) IN
      IF in0.exc # "None" THEN Raise(Cur, in0.exc)
      ELSE IF "scale" \in DOMAIN node.attrs
      THEN
        LET st1 == add_layer(Cur, "scale_nd", <<in0.tensor>>,
                             [scale |-> node.attrs.scale, channel_axis |-> 3])
        IN  IF Len(node.in_edges) < 2 THEN Raise(set_name(st1, node.name), "IndexError")
            ELSE emit(set_name(st1, node.name), node, "Eltwise",
                      <<node.in_edges[1], node.in_edges[2]>>)
      ELSE IF Len(node.in_edges) < 2 THEN Raise(Cur, "IndexError")
      ELSE
        LET in1 == get_output(Cur, node.in_edges[2])
            st1 == set_name(add_layer(Cur, "elementwise", <<in0.tensor, in1.tensor>>,
                                      [op |-> "PROD"]), node.name)
        IN  IF in1.exc # "None" THEN Raise(Cur, in1.exc)
            ELSE emit(st1, node, "Eltwise", <<node.in_edges[1], node.in_edges[2]>>)

rename_ConvTranspose(node) ==
    IF ~is_main(Slice(node.in_edges, 0, 1)) THEN Cur
    ELSE IF "pads" \notin DOMAIN node.attrs THEN Raise(Cur, "KeyError")
    ELSE IF "weight" \notin node.params THEN Raise(Cur, "KeyError")
    ELSE IF Len(node.in_edges) < 1 THEN Raise(Cur, "IndexError")
    ELSE
      LET attr == node.attrs
          in0 == get_output(Cur, node.in_edges[1])
          st1 == add_layer(Cur, "deconvolution", <<in0.tensor>>,
                    [kernel_shape |-> pair_or_none(attr, "kernel_shape"),
                     bias |-> "bias" \in node.params,
                     stride |-> pair_or_none(attr, "strides"),
                     padding |-> pads_of(attr)])
      IN  IF in0.exc # "None" THEN Raise(Cur, in0.exc)
          ELSE IF ~pads_bound(attr) THEN Raise(st1, "UnboundLocalError")
          ELSE emit(set_name(st1, node.name), node, "Deconvolution",
                    <<node.in_edges[1]>>)

\* the exception of the first input whose get_output(0) raises, else "None"
first_exc(st, inputs) ==
    IF \A k \in DOMAIN inputs : get_output(st, inputs[k]).exc = "None" THEN "None"
    ELSE LET k == CHOOSE j \in DOMAIN inputs :
                    /\ get_output(st, inputs[j]).exc # "None"
                    /\ \A i \in 1..(j - 1) : get_output(st, inputs[i]).exc = "None"
         IN  get_output(st, inputs[k]).exc

rename_Concat(node) ==
    IF ~is_main(node.in_edges) THEN Cur
    ELSE IF first_exc(Cur, node.in_edges) # "None"
         THEN Raise(Cur, first_exc(Cur, node.in_edges))
    ELSE
      LET st1 == add_layer(Cur, "concatenation",
                    [k \in DOMAIN node.in_edges |-> get_output(Cur, node.in_edges[k]).tensor],
                    [axis |-> IF "axis" \in DOMAIN node.attrs THEN node.attrs.axis ELSE 0])
      IN  IF "axis" \notin DOMAIN node.attrs THEN Raise(st1, "KeyError")
          ELSE emit(set_name(st1, node.name), node, "Concat", node.in_edges)

rename_Reshape(node) ==
    IF ~is_main(Slice(node.in_edges, 0, 1)) THEN Cur
    ELSE IF "shape" \notin DOMAIN node.attrs /\ node.output_shape = <<>>
         THEN Raise(Cur, "Exception")
    ELSE IF Len(node.in_edges) < 1 THEN Raise(Cur, "IndexError")
    ELSE
      LET shape == IF "shape" \in DOMAIN node.attrs THEN node.attrs.shape
                   ELSE node.output_shape
          in0 == tensor_of(Cur, node.in_edges[1])
          st1 == set_name(add_layer(Cur, "shuffle", <<in0.tensor>>,
                                    [reshape_dims |-> shape]), node.name)
      IN  IF in0.exc # "None" THEN Raise(Cur, in0.exc)
          ELSE emit(st1, node, "Reshape", <<node.in_edges[1]>>)

rename_Permute(node) ==
    IF ~is_main(node.in_edges) THEN Cur
    ELSE IF Len(node.in_edges) < 1 THEN Raise(Cur, "IndexError")
    ELSE
      LET order == IF "perm" \in DOMAIN node.attrs THEN node.attrs.perm ELSE <<>>
          in0 == get_output(Cur, node.in_edges[1])
          st1 == set_name(add_layer(Cur, "shuffle", <<in0.tensor>>,
                                    [first_transpose |-> order]), node.name)
      IN  IF in0.exc # "None" THEN Raise(Cur, in0.exc)
          ELSE emit(st1, node, "Permute", <<node.in_edges[1]>>)

rename_Resize(node) ==
    IF ~is_main(Slice(node.in_edges, 0, 1)) THEN Cur
    ELSE IF Len(node.in_edges) < 1 THEN Raise(Cur, "IndexError")
    ELSE
      LET attr == node.attrs
          in0 == get_output(Cur, node.in_edges[1])
          st1 == add_layer(Cur, "resize", <<in0.tensor>>,
                    [scales |-> IF "scale_factor" \in DOMAIN attr
                                THEN <<1, 1, attr.scale_factor[1], attr.scale_factor[1]>>
                                ELSE <<>>])
      IN  IF in0.exc # "None" THEN Raise(Cur, in0.exc)
          ELSE IF "scale_factor" \notin DOMAIN attr /\ "output_size" \notin DOMAIN attr
               THEN Raise(st1, "KeyError")
          ELSE IF "mode" \notin DOMAIN attr THEN Raise(st1, "KeyError")
          ELSE IF "coordinate_transformation_mode" \notin DOMAIN attr
               THEN Raise(st1, "KeyError")
          ELSE IF attr.coordinate_transformation_mode
                    \notin {"pytorch_half_pixel", "asymmetric"}
               THEN Raise(st1, "RuntimeError")
          ELSE IF "nearest_mode" \notin DOMAIN attr THEN Raise(st1, "KeyError")
          ELSE IF attr.nearest_mode # "floor" THEN Raise(st1, "RuntimeError")
          ELSE emit(set_name(st1, node.name), node, "Upsample", <<node.in_edges[1]>>)

\* func = getattr(self, "rename_" + node_type); func(current_node)
rename(node_type, node) ==
    CASE node_type = "Common" -> rename_Common(node)
      [] node_type = "Data" -> rename_Data(node)
      [] node_type = "Conv" -> rename_Conv(node)
      [] node_type = "Relu" -> rename_Relu(node)
      [] node_type = "MaxPool" -> rename_MaxPool(node)
      [] node_type = "Add" -> rename_Add(node)
      [] node_type = "Flatten" -> rename_Flatten(node)
      [] node_type = "Mul" -> rename_Mul(node)
      [] node_type = "ConvTranspose" -> rename_ConvTranspose(node)
      [] node_type = "Concat" -> rename_Concat(node)
      [] node_type = "Reshape" -> rename_Reshape(node)
      [] node_type = "Permute" -> rename_Permute(node)
      [] node_type = "Resize" -> rename_Resize(node)

\* the body of the for loop of gen_IR, after named_node is updated
visit(node) ==
    IF node.type \notin DOMAIN layer_map THEN Raise(Cur, "KeyError")
    ELSE IF layer_map[node.type] \in RenameMethods THEN rename(layer_map[node.type], node)
    ELSE rename_Common(node)

(***************************************************************************)
(* run and gen_IR, step by step.                                           *)
(***************************************************************************)
Init ==
    /\ pytorch_graph \in
         {[size |-> n, acyclic |-> a, output_layers |-> o] :
            n \in 1..MaxNodes, a \in BOOLEAN, o \in OutputLists(MaxNodes)}
    /\ \A k \in DOMAIN pytorch_graph.output_layers :
         pytorch_graph.output_layers[k] \in {Name(j) : j \in 1..pytorch_graph.size}
    /\ pc = "start"
    /\ idx = 0
    /\ current_node = NoNode
    /\ named_node = <<>>
    /\ main_layers = <<>>
    /\ named_layer = <<>>
    /\ network = <<>>
    /\ marked = <<>>
    /\ weights = <<>>
    /\ warnings = <<>>
    /\ printed = <<>>
    /\ exc = "None"
    /\ proto_files = <<>>
    /\ trt_files = <<>>
    /\ fuse = FALSE
    /\ model = <<>>
    /\ given_model = <<>>
    /\ passes = 0
    /\ frames = <<>>

\* self.src_graph.topological_sort: "order" when the walker yields the visiting
\* order, the exception it raises on a cyclic graph otherwise
topological_sort == IF pytorch_graph.acyclic THEN "order" ELSE "CycleError"

\* run calls gen_IR: the builder and the network are created, the try block is
\* entered and the visiting order is requested
gen_IR_begin ==
    /\ pc = "start"
    /\ pc' = IF topological_sort = "order" THEN "walk" ELSE "except"
    /\ exc' = IF topological_sort = "order" THEN "None" ELSE topological_sort
    /\ UNCHANGED <<pytorch_graph, idx, current_node, named_node, main_layers, named_layer,
                   network, marked, weights, warnings, printed, proto_files, trt_files>>
    /\ UNCHANGED fusion_vars

\* one iteration of the for loop, for a node whose type is in types
gen_IR_loop(types) ==
    /\ pc = "walk"
    /\ idx < pytorch_graph.size
    /\ \E node \in NodeAt(idx + 1) :
         /\ node.type \in types
         /\ LET st == visit(node) IN
              /\ current_node' = node
              /\ named_node' = (node.real_name :> node) @@ named_node
              /\ main_layers' = st.main_layers
              /\ named_layer' = st.named_layer
              /\ network' = st.network
              /\ weights' = st.weights
              /\ warnings' = st.warnings
              /\ exc' = st.exc
              /\ pc' = IF st.exc = "None" THEN "walk" ELSE "except"
    /\ idx' = idx + 1
    /\ UNCHANGED <<pytorch_graph, marked, printed, proto_files, trt_files>>
    /\ UNCHANGED fusion_vars

visit_Data == gen_IR_loop({"Data"})

visit_Conv == gen_IR_loop({"onnx::Conv"})

visit_Relu == gen_IR_loop({"onnx::Relu"})

visit_MaxPool == gen_IR_loop({"onnx::MaxPool"})

visit_Add == gen_IR_loop({"onnx::Add"})

visit_Flatten == gen_IR_loop({"onnx::Flatten"})

visit_Mul == gen_IR_loop({"onnx::Mul"})

visit_ConvTranspose == gen_IR_loop({"onnx::ConvTranspose"})

visit_Concat == gen_IR_loop({"onnx::Concat"})

visit_Reshape == gen_IR_loop({"onnx::Reshape"})

visit_Permute == gen_IR_loop({"onnx::Transpose"})

visit_Resize == gen_IR_loop({"onnx::Resize"})

\* types that layer_map sends to Common or to a name with no routine
visit_Common ==
    gen_IR_loop({t \in NodeTypes \cap DOMAIN layer_map :
                    layer_map[t] = "Common" \/ layer_map[t] \notin RenameMethods})

\* types that layer_map does not hold
visit_unmapped == gen_IR_loop(NodeTypes \ DOMAIN layer_map)

\* the for loop runs out of nodes
gen_IR_loop_end ==
    /\ pc = "walk"
    /\ idx = pytorch_graph.size
    /\ pc' = "finally"
    /\ UNCHANGED <<pytorch_graph, idx, current_node, named_node, main_layers, named_layer,
                   network, marked, weights, warnings, printed, exc, proto_files,
                   trt_files>>
    /\ UNCHANGED fusion_vars

\* the except clause letting the exception leave gen_IR
gen_IR_except_propagate ==
    /\ pc = "except"
    /\ pc' = "raised"
    /\ UNCHANGED <<pytorch_graph, idx, current_node, named_node, main_layers, named_layer,
                   network, marked, weights, warnings, printed, exc, proto_files,
                   trt_files>>
    /\ UNCHANGED fusion_vars

\* except Exception as e: print(e)
gen_IR_except ==
    /\ pc = "except"
    /\ printed' = Append(printed, exc)
    /\ exc' = "None"
    /\ pc' = "finally"
    /\ UNCHANGED <<pytorch_graph, idx, current_node, named_node, main_layers, named_layer,
                   network, marked, weights, warnings, proto_files, trt_files>>
    /\ UNCHANGED fusion_vars

\* the finally block rewriting the tops along with the names
strip_names_and_tops(layers) ==
    [k \in DOMAIN layers |->
        [layers[k] EXCEPT !.name = replace_dot(@),
                          !.top = [j \in DOMAIN @ |-> replace_dot(@[j])]]]

\* layer.name = layer.name.replace(".", ""), on the records of main_layers
strip_names(layers) ==
    [k \in DOMAIN layers |-> [layers[k] EXCEPT !.name = replace_dot(@)]]

\* the finally block: the names of the records are rewritten in place and the
\* copies are written to the debug prototxt
gen_IR_finally ==
    /\ pc = "finally"
    /\ main_layers' = strip_names(main_layers)
    /\ proto_files' = Append(proto_files, strip_names(main_layers))
    /\ pc' = "mark"
    /\ UNCHANGED <<pytorch_graph, idx, current_node, named_node, named_layer, network,
                   marked, weights, warnings, printed, exc, trt_files>>
    /\ UNCHANGED fusion_vars

\* the loop over output_layers passing over the names that have no layer
mark_outputs_lenient(outs) ==
    LET good == SelectSeq(outs, LAMBDA o : get_output(Cur, o).exc = "None")
    IN  [marked |-> [k \in DOMAIN good |-> get_output(Cur, good[k]).tensor],
         exc |-> "None"]

\* the loop over output_layers: the tensors marked, and the exception of the
\* first name whose lookup raises
mark_outputs(outs) ==
    LET bad == {k \in DOMAIN outs : get_output(Cur, outs[k]).exc # "None"}
        stop == IF bad = {} THEN Len(outs) + 1
                ELSE CHOOSE k \in bad : \A j \in bad : k <= j
    IN  [marked |-> [k \in 1..(stop - 1) |-> get_output(Cur, outs[k]).tensor],
         exc |-> IF bad = {} THEN "None" ELSE get_output(Cur, outs[stop]).exc]

gen_IR_mark_output ==
    /\ pc = "mark"
    /\ LET r == mark_outputs(pytorch_graph.output_layers) IN
         /\ marked' = r.marked
         /\ exc' = r.exc
         /\ pc' = IF r.exc = "None" THEN "build" ELSE "raised"
    /\ UNCHANGED <<pytorch_graph, idx, current_node, named_node, main_layers, named_layer,
                   network, weights, warnings, printed, proto_files, trt_files>>
    /\ UNCHANGED fusion_vars

\* build_serialized_network and deserialize_cuda_engine: the builder is a black
\* box that yields an engine or fails
gen_IR_build ==
    /\ pc = "build"
    /\ \E ok \in BOOLEAN :
         /\ pc' = IF ok THEN "save" ELSE "raised"
         /\ exc' = IF ok THEN "None" ELSE "TypeError"
    /\ UNCHANGED <<pytorch_graph, idx, current_node, named_node, main_layers, named_layer,
                   network, marked, weights, warnings, printed, proto_files, trt_files>>
    /\ UNCHANGED fusion_vars

\* run: self.save_to_file(engine, dest_path + ".trt")
save_to_file ==
    /\ pc = "save"
    /\ trt_files' = Append(trt_files, [layers |-> network, outputs |-> marked])
    /\ pc' = "done"
    /\ UNCHANGED <<pytorch_graph, idx, current_node, named_node, main_layers, named_layer,
                   network, marked, weights, warnings, printed, exc, proto_files>>
    /\ UNCHANGED fusion_vars

Next ==
    \/ gen_IR_begin
    \/ visit_Data
    \/ visit_Conv
    \/ visit_Relu
    \/ visit_MaxPool
    \/ visit_Add
    \/ visit_Flatten
    \/ visit_Mul
    \/ visit_ConvTranspose
    \/ visit_Concat
    \/ visit_Reshape
    \/ visit_Permute
    \/ visit_Resize
    \/ visit_Common
    \/ visit_unmapped
    \/ gen_IR_loop_end
    \/ gen_IR_except
    \/ gen_IR_finally
    \/ gen_IR_mark_output
    \/ gen_IR_build
    \/ save_to_file

Spec == Init /\ [][Next]_vars

(***************************************************************************)
(* __init__ with fuse set: fuse_all_conv_bn over the torch model.  A       *)
(* module is its class, the module object it is (id: the place of the      *)
(* object in the given model, <<>> for an object made by the pass), for a  *)
(* Conv2d the BatchNorm2d objects whose parameters its weight and bias     *)
(* hold (bns), and its named children in declaration order; a child is     *)
(* named by its position.                                                  *)
(***************************************************************************)
LeafKinds == {"Conv2d", "BatchNorm2d", "ReLU", "Identity"}

\* class and children's classes of a child of the model: a leaf, or a
\* container of leaves
Shapes ==
    {[kind |-> k, kids |-> <<>>] : k \in LeafKinds}
    \cup {[kind |-> "Sequential", kids |-> c] :
            c \in UNION {[1..n -> LeafKinds] : n \in 0..MaxNested}}

Module(kind, id, children) ==
    [kind |-> kind, id |-> id, bns |-> <<>>, children |-> children]

\* the children of the model whose classes are given by f
Build(f) ==
    [k \in DOMAIN f |->
        [name |-> k,
         module |-> Module(f[k].kind, <<k>>,
                       [j \in DOMAIN f[k].kids |->
                           [name |-> j,
                            module |-> Module(f[k].kids[j], <<k, j>>, <<>>)]])]]

Models == {Build(f) : f \in UNION {[1..n -> Shapes] : n \in 0..MaxChildren}}

RECURSIVE named_children(_, _)
\* module.named_children() of the module at path, the model itself at <<>>
named_children(tree, path) ==
    IF path = <<>> THEN tree
    ELSE named_children(tree[path[1]].module.children, Tail(path))

RECURSIVE setattr(_, _, _, _)
\* setattr(module at path, name, value): the child keeps its place
setattr(tree, path, name, value) ==
    IF path = <<>> THEN [tree EXCEPT ![name].module = value]
    ELSE [tree EXCEPT ![path[1]].module.children = setattr(@, Tail(path), name, value)]

\* fuse_conv_bn_eval(conv, bn): a copy of conv whose weight and bias hold the
\* parameters of conv and the scale and shift of bn
fuse_conv_bn_eval(conv, bn) == [conv EXCEPT !.bns = Append(@, bn.id)]

\* nn.Identity()
Identity == Module("Identity", <<>>, <<>>)

NoGraph == [size |-> 0, acyclic |-> TRUE, output_layers |-> <<>>]

InitFuse ==
    /\ pytorch_graph = NoGraph
    /\ pc = "construct"
    /\ idx = 0
    /\ current_node = NoNode
    /\ named_node = <<>>
    /\ main_layers = <<>>
    /\ named_layer = <<>>
    /\ network = <<>>
    /\ marked = <<>>
    /\ weights = <<>>
    /\ warnings = <<>>
    /\ printed = <<>>
    /\ exc = "None"
    /\ proto_files = <<>>
    /\ trt_files = <<>>
    /\ fuse \in BOOLEAN
    /\ model \in Models
    /\ given_model = model
    /\ passes = 0
    /\ frames = <<>>

parser_vars ==
    <<pytorch_graph, idx, current_node, named_node, main_layers, named_layer, network,
      marked, weights, warnings, printed, exc, proto_files, trt_files>>

\* a new activation of fuse_all_conv_bn on the module at path: stack = []
Frame(path) == [path |-> path, i |-> 0, stack |-> <<>>, entered |-> FALSE]

\* the innermost activation, the children its for loop runs over and the
\* child the loop is at
F == frames[Len(frames)]

kids == named_children(model, F.path)

child == kids[F.i + 1]

\* the loop of the innermost activation has a child to take
in_loop == pc = "fusing" /\ frames # <<>> /\ F.i < Len(kids)

\* the loop goes to its next child
next_child(stack) ==
    [frames EXCEPT ![Len(frames)] = [@ EXCEPT !.i = @ + 1, !.stack = stack,
                                               !.entered = FALSE]]

\* __init__ with fuse unset: the model is left alone
init_no_fuse ==
    /\ pc = "construct"
    /\ ~fuse
    /\ pc' = "constructed"
    /\ UNCHANGED <<parser_vars, fusion_vars>>

\* __init__ with fuse set: self.fuse_all_conv_bn(self.model); also the __init__
\* of a further parser constructed over the same model object
fuse_begin ==
    /\ pc \in {"construct", "constructed"}
    /\ fuse
    /\ passes < MaxPasses
    /\ passes' = passes + 1
    /\ frames' = <<Frame(<<>>)>>
    /\ pc' = "fusing"
    /\ UNCHANGED <<parser_vars, fuse, model, given_model>>

\* if list(module.named_children()): self.fuse_all_conv_bn(module)
fuse_recurse ==
    /\ in_loop
    /\ ~F.entered
    /\ child.module.children # <<>>
    /\ frames' = Append([frames EXCEPT ![Len(frames)].entered = TRUE],
                        Frame(Append(F.path, child.name)))
    /\ UNCHANGED <<parser_vars, pc, fuse, model, given_model, passes>>

\* a BatchNorm2d while the stack is empty: continue
fuse_bn_no_stack ==
    /\ in_loop
    /\ child.module.kind = "BatchNorm2d"
    /\ F.stack = <<>>
    /\ frames' = next_child(F.stack)
    /\ UNCHANGED <<parser_vars, pc, fuse, model, given_model, passes>>

\* a BatchNorm2d while stack[-1] is a Conv2d: the two setattr
fuse_bn_conv ==
    /\ in_loop
    /\ child.module.kind = "BatchNorm2d"
    /\ F.stack # <<>>
    /\ F.stack[Len(F.stack)].module.kind = "Conv2d"
    /\ LET top == F.stack[Len(F.stack)] IN
         model' = setattr(setattr(model, F.path, top.name,
                                  fuse_conv_bn_eval(top.module, child.module)),
                          F.path, child.name, Identity)
    /\ frames' = next_child(F.stack)
    /\ UNCHANGED <<parser_vars, pc, fuse, given_model, passes>>

\* a BatchNorm2d while stack[-1] is not a Conv2d: nothing is done
fuse_bn_other ==
    /\ in_loop
    /\ child.module.kind = "BatchNorm2d"
    /\ F.stack # <<>>
    /\ F.stack[Len(F.stack)].module.kind # "Conv2d"
    /\ frames' = next_child(F.stack)
    /\ UNCHANGED <<parser_vars, pc, fuse, model, given_model, passes>>

\* any other module, after the pass over its children: stack.append((name, module))
fuse_push ==
    /\ in_loop
    /\ child.module.kind # "BatchNorm2d"
    /\ child.module.children = <<>> \/ F.entered
    /\ frames' = next_child(Append(F.stack, child))
    /\ UNCHANGED <<parser_vars, pc, fuse, model, given_model, passes>>

\* the for loop is over: fuse_all_conv_bn returns
fuse_return ==
    /\ pc = "fusing"
    /\ frames # <<>>
    /\ F.i = Len(kids)
    /\ frames' = SubSeq(frames, 1, Len(frames) - 1)
    /\ pc' = IF Len(frames) = 1 THEN "constructed" ELSE "fusing"
    /\ UNCHANGED <<parser_vars, fuse, model, given_model, passes>>

NextFuse ==
    \/ init_no_fuse
    \/ fuse_begin
    \/ fuse_recurse
    \/ fuse_bn_no_stack
    \/ fuse_bn_conv
    \/ fuse_bn_other
    \/ fuse_push
    \/ fuse_return

SpecFuse == InitFuse /\ [][NextFuse]_vars

(***************************************************************************)
(* Vocabulary of the properties.                                           *)
(***************************************************************************)
\* the Reachability Set: the tops of the records of main_layers
Tops == UNION {Range(main_layers[l].top) : l \in DOMAIN main_layers}

TopsAfter == UNION {Range(main_layers'[l].top) : l \in DOMAIN main_layers'}

\* a node has been taken by the loop and current_node is that node
Visited == current_node # NoNode

\* the category of the node maps to a translation routine
HasRoutine(node) ==
    /\ node.type \in DOMAIN layer_map
    /\ layer_map[node.type] \in RenameMethods \ {"Common"}

\* the input names a routine needs: both operands of the binary elementwise
\* operators, every input of Concat and Permute, the first input otherwise
RequiredInputs(node) ==
    IF node.type \in {"onnx::Add", "onnx::Mul"} THEN Slice(node.in_edges, 0, 2)
    ELSE IF node.type \in {"onnx::Concat", "onnx::Transpose"} THEN node.in_edges
    ELSE Slice(node.in_edges, 0, 1)

\* an exception left the loop body of gen_IR (the walk stops at the first one)
WalkRaised == pc = "except" \/ printed # <<>>

\* the for loop is over
WalkOver == pc \in {"finally", "mark", "build", "save", "done", "raised"}

\* run has returned or raised
RunOver == pc \in {"done", "raised"}

\* C1: a node whose category maps to a routine and one of whose required inputs
\* is absent from the Reachability Set when it is visited is skipped without an
\* exception, and its name does not enter the Reachability Set.  (Stated for the
\* nodes whose materialized inputs are layers, so that no other failure of the
\* routine interferes.)
C1_SkippedOnMissingInput ==
    (/\ Visited
     /\ HasRoutine(current_node)
     /\ \E k \in DOMAIN RequiredInputs(current_node) :
            RequiredInputs(current_node)[k] \notin Tops
     /\ \A k \in DOMAIN RequiredInputs(current_node) :
            RequiredInputs(current_node)[k] \in Tops
            => named_layer[RequiredInputs(current_node)[k]].kind = "ILayer")
    => (current_node.name \notin Tops /\ ~WalkRaised)

\* C2: a name that was visited and is not in the Reachability Set never enters
\* it, and a visit of a node whose sole input is such a name adds no record, no
\* handle and no target layer, and raises nothing when the node's category is in
\* layer_map; so the skip carries along every chain of sole-input nodes.
C2_SkipCascade ==
    [][/\ \A n \in DOMAIN named_node : n \notin Tops => n \notin TopsAfter
       /\ (/\ pc = "walk"
           /\ idx' = idx + 1
           /\ Len(current_node'.in_edges) = 1
           /\ current_node'.in_edges[1] \in DOMAIN named_node
           /\ current_node'.in_edges[1] \notin Tops)
          => (/\ main_layers' = main_layers
              /\ named_layer' = named_layer
              /\ network' = network
              /\ current_node'.name \notin TopsAfter
              /\ current_node'.type \in DOMAIN layer_map => exc' = "None")]_vars

\* C2 witness: a node with a routine skipped behind a node with a routine that
\* was itself skipped behind a skipped node (a chain of two cascaded skips).
C2_Witness ==
    /\ Visited
    /\ pc = "walk"
    /\ HasRoutine(current_node)
    /\ Len(current_node.in_edges) = 1
    /\ current_node.name \notin Tops
    /\ LET a == current_node.in_edges[1] IN
         /\ a \notin Tops
         /\ HasRoutine(named_node[a])
         /\ Len(named_node[a].in_edges) = 1
         /\ named_node[a].in_edges[1] \in DOMAIN named_node
         /\ named_node[a].in_edges[1] \notin Tops

\* C3: a node whose category is not in layer_map is skipped with a warning and
\* the walk goes on: no exception leaves the loop body, a warning names the
\* node, and every node of the visiting order has been visited when the loop
\* is over.
C3_UnmappedIsSkipped ==
    /\ (Visited /\ current_node.type \notin DOMAIN layer_map)
       => (/\ ~WalkRaised
           /\ \E w \in DOMAIN warnings : warnings[w].name = current_node.name)
    /\ (WalkOver /\ pytorch_graph.acyclic
        /\ \E n \in DOMAIN named_node : named_node[n].type \notin DOMAIN layer_map)
       => idx = pytorch_graph.size

\* C4: after the walk every bottom of every record of main_layers is the top of
\* an earlier record.
C4_TopologicalOrder ==
    WalkOver =>
        \A l \in DOMAIN main_layers :
            \A b \in Range(main_layers[l].bottom) :
                \E e \in 1..(l - 1) : b \in Range(main_layers[e].top)

\* some designated output has no handle in named_layer
MissingOutput ==
    \E k \in DOMAIN pytorch_graph.output_layers :
        pytorch_graph.output_layers[k] \notin DOMAIN named_layer

\* C5: once the outputs have been marked, a designated output without a handle
\* means gen_IR raised and no .trt file exists; a .trt file is written only
\* when every designated output has a handle.
C5_MissingOutputIsFatal ==
    /\ (MissingOutput /\ pc \in {"build", "save", "done", "raised"})
       => (pc = "raised" /\ exc # "None" /\ trt_files = <<>>)
    /\ trt_files # <<>> => ~MissingOutput

\* C5 witness: the walk skipped a designated output and run has raised on it.
C5_Witness ==
    /\ pc = "raised"
    /\ exc = "KeyError"
    /\ MissingOutput
    /\ proto_files # <<>>

\* C6: a Resize node whose input is materialized and whose coordinate-transform
\* mode is not one of the two supported values, or whose rounding mode is not
\* floor, aborts the translation: gen_IR goes no further and neither the debug
\* prototxt nor the .trt file is written.
C6_ResizeFatalNoArtifact ==
    (/\ Visited
     /\ current_node.type = "onnx::Resize"
     /\ current_node.in_edges[1] \in Tops
     /\ named_layer[current_node.in_edges[1]].kind = "ILayer"
     /\ \/ current_node.attrs.coordinate_transformation_mode
              \notin {"pytorch_half_pixel", "asymmetric"}
        \/ current_node.attrs.nearest_mode # "floor")
    => (/\ proto_files = <<>>
        /\ trt_files = <<>>
        /\ pc \notin {"mark", "build", "save", "done"})

\* C7: when the request for the visiting order raises, the exception leaves the
\* translation: no node is visited, the finalization does not run and no file
\* is written.
C7_CycleIsFatal ==
    (~pytorch_graph.acyclic /\ pc # "start")
    => (/\ exc = "CycleError"
        /\ named_node = <<>>
        /\ proto_files = <<>>
        /\ trt_files = <<>>
        /\ pc \notin {"finally", "mark", "build", "save", "done"})

\* C8: across every step the Reachability Set only grows, no record leaves
\* main_layers and no record's top changes.
C8_ReachabilityMonotone ==
    [][/\ Tops \subseteq TopsAfter
       /\ Len(main_layers') >= Len(main_layers)
       /\ \A l \in DOMAIN main_layers : main_layers'[l].top = main_layers[l].top]_vars

\* C8 witness: a routine raised after records were appended, and the finally block
\* has rewritten the name of a record whose top kept its dot.
C8_Witness ==
    /\ pc = "mark"
    /\ printed # <<>>
    /\ Len(main_layers) >= 2
    /\ \E l \in DOMAIN main_layers : main_layers[l].name # main_layers[l].top[1]

\* C9: a step registers a handle for at most one name, the name of the node it
\* visits; a registered entry is never reassigned; Flatten registers the handle
\* its input has; and no two records of main_layers have the same top.
C9_RegisteredOnce ==
    [][/\ \A n \in DOMAIN named_layer :
            n \in DOMAIN named_layer' /\ named_layer'[n] = named_layer[n]
       /\ (DOMAIN named_layer') \ (DOMAIN named_layer) \subseteq {current_node'.name}
       /\ (/\ current_node'.type = "onnx::Flatten"
           /\ current_node'.name \in (DOMAIN named_layer') \ (DOMAIN named_layer))
          => named_layer'[current_node'.name] = named_layer[current_node'.in_edges[1]]
       /\ \A l1, l2 \in DOMAIN main_layers' :
            l1 # l2 => main_layers'[l1].top # main_layers'[l2].top]_vars

\* C9 witness: Flatten has registered its input's handle under its own name, next
\* to the input's entry.
C9_Witness ==
    /\ Visited
    /\ current_node.type = "onnx::Flatten"
    /\ current_node.name \in DOMAIN named_layer
    /\ current_node.in_edges[1] \in DOMAIN named_layer
    /\ named_layer[current_node.name] = named_layer[current_node.in_edges[1]]

\* Scenario C: the graph input -> X -> relu with X unsupported and relu the
\* designated output, once run is over.  When X's category is not in layer_map
\* the loop stops at X and relu is never taken.
ScenarioC ==
    /\ RunOver
    /\ pytorch_graph.acyclic
    /\ pytorch_graph.size = 3
    /\ pytorch_graph.output_layers = <<Name(3)>>
    /\ Name(1) \in DOMAIN named_node
    /\ named_node[Name(1)].type = "Data"
    /\ Name(2) \in DOMAIN named_node
    /\ ~HasRoutine(named_node[Name(2)])
    /\ named_node[Name(2)].in_edges = <<Name(1)>>
    /\ Name(3) \in DOMAIN named_node
       => (/\ named_node[Name(3)].type = "onnx::Relu"
           /\ named_node[Name(3)].in_edges = <<Name(2)>>)

\* the debug prototxt was written once and holds the record of the input only
InputOnlyArtifact ==
    /\ Len(proto_files) = 1
    /\ Len(proto_files[1]) = 1
    /\ proto_files[1][1].type = "Input"
    /\ proto_files[1][1].top = <<Name(1)>>
    /\ proto_files[1][1].bottom = <<>>

ScenarioA ==
    /\ proto_files # <<>>
    /\ pytorch_graph.acyclic
    /\ pytorch_graph.size = 3
    /\ DOMAIN named_node = {Name(1), Name(2), Name(3)}
    /\ named_node[Name(1)].type = "Data"
    /\ named_node[Name(2)].type = "onnx::Conv"
    /\ named_node[Name(2)].in_edges = <<Name(1)>>
    /\ named_node[Name(2)].params = {"weight"}
    /\ named_node[Name(3)].type = "onnx::Relu"
    /\ named_node[Name(3)].in_edges = <<Name(2)>>

\* the handles and the records of Scenario A apart from the name of the conv
\* record: three handles and three target entries (the input and two layers),
\* one artifact of three records Input, Convolution, ReLU in this order, the
\* bottom of the conv record the input's name, the bottom of the relu record
\* the top of the conv record
ScenarioA_Records ==
    /\ DOMAIN named_layer = {Name(1), Name(2), Name(3)}
    /\ named_layer[Name(1)].kind = "ITensor"
    /\ named_layer[Name(2)].kind = "ILayer"
    /\ named_layer[Name(3)].kind = "ILayer"
    /\ named_layer[Name(2)] # named_layer[Name(3)]
    /\ [k \in DOMAIN network |-> network[k].op] = <<"input", "convolution", "activation">>
    /\ Len(proto_files) = 1
    /\ [k \in DOMAIN proto_files[1] |-> proto_files[1][k].type]
         = <<"Input", "Convolution", "ReLU">>
    /\ proto_files[1][1].top = <<Name(1)>>
    /\ proto_files[1][1].name = Name(1)
    /\ proto_files[1][2].bottom = <<Name(1)>>
    /\ proto_files[1][2].top = <<Name(2)>>
    /\ proto_files[1][3].bottom = proto_files[1][2].top
    /\ proto_files[1][3].top = <<Name(3)>>

\* C11 as stated: in Scenario A two target objects are registered besides the
\* input, the artifact holds the two records conv, relu after the input record,
\* the bottom of the conv record is the input's name, and the single bottom of
\* the relu record is both the name and the top of the conv record.
C11_ScenarioA_BottomIsName ==
    ScenarioA
    => (/\ ScenarioA_Records
        /\ proto_files[1][3].bottom = <<proto_files[1][2].name>>)

\* C11 amended: in Scenario A two target objects are registered besides the
\* input, the artifact holds the two records conv, relu after the input record,
\* the bottom of the conv record is the input's name, and the single bottom of
\* the relu record is the top of the conv record, which is the name of the conv
\* node; the name of the conv record is that name with every "." removed.
C11_ScenarioA_BottomIsTop ==
    ScenarioA
    => (/\ ScenarioA_Records
        /\ proto_files[1][3].bottom = <<Name(2)>>
        /\ proto_files[1][2].name = replace_dot(Name(2)))

\* C11 witness: Scenario A translated to the end, relu the designated output,
\* the conv given four pads.
C11_Witness ==
    /\ ScenarioA
    /\ pc = "done"
    /\ pytorch_graph.output_layers = <<Name(3)>>
    /\ Len(named_node[Name(2)].attrs.pads) = 4
    /\ Len(proto_files[1]) = 3

(***************************************************************************)
(* Vocabulary of the properties of the fusion pass.                        *)
(***************************************************************************)
\* the places of the modules below the model: <<k>> is child k of the model,
\* <<k, j>> child j of that child
Positions ==
    {<<k>> : k \in DOMAIN given_model}
    \cup UNION {{<<k, j>> : j \in DOMAIN given_model[k].module.children} :
                    k \in DOMAIN given_model}

Parent(pos) == SubSeq(pos, 1, Len(pos) - 1)

module_at(tree, pos) == named_children(tree, Parent(pos))[pos[Len(pos)]].module

\* the child declared right before pos under the same parent is a Conv2d
DirectlyAfterConv(tree, pos) ==
    /\ pos[Len(pos)] > 1
    /\ module_at(tree, Append(Parent(pos), pos[Len(pos)] - 1)).kind = "Conv2d"

\* the BatchNorm2d modules of the given model that are now a pass-through
Consumed ==
    {pos \in Positions : /\ module_at(given_model, pos).kind = "BatchNorm2d"
                         /\ module_at(model, pos) = Identity}

\* number of modules that are not a pass-through
RealCount(tree) ==
    Cardinality({pos \in Positions : module_at(tree, pos).kind # "Identity"})

\* some BatchNorm2d is declared right after a Conv2d
HasPattern(tree) ==
    \E pos \in Positions : /\ module_at(tree, pos).kind = "BatchNorm2d"
                           /\ DirectlyAfterConv(tree, pos)

\* the Conv2d installed next to pos holds the parameters of the convolution it
\* started as and those of the BatchNorm2d that was at pos
Reflected(pos) ==
    \E q \in Positions :
        /\ Parent(q) = Parent(pos)
        /\ module_at(model, q).kind = "Conv2d"
        /\ module_at(model, q).id = q
        /\ pos \in Range(module_at(model, q).bns)

\* C12: when the pass is over, every BatchNorm2d of the given model that is
\* not declared right after a Conv2d (it is the first child, or the child right
\* before it is anything else, another BatchNorm2d included) is the module it
\* was, and no exception was raised.
C12_FoldOnlyDirectlyAfterConv ==
    pc = "constructed"
    => (/\ exc = "None"
        /\ \A pos \in Positions :
             (/\ module_at(given_model, pos).kind = "BatchNorm2d"
              /\ ~DirectlyAfterConv(given_model, pos))
             => module_at(model, pos) = module_at(given_model, pos))

\* C13: when the pass is over, a model without a BatchNorm2d right after a
\* Conv2d is the model that was given; the number of modules that are not a
\* pass-through went down by the number of folded BatchNorm2d, and each of them
\* is reflected, with its convolution, in a Conv2d of the tree; and a second
\* pass over the result changes nothing.
C13_FusionCountAndIdempotence ==
    /\ [](pc = "constructed"
          => (/\ ~HasPattern(given_model) => model = given_model
              /\ RealCount(given_model) - RealCount(model) = Cardinality(Consumed)
              /\ \A pos \in Consumed : Reflected(pos)))
    /\ [][passes = MaxPasses => model' = model]_vars

\* the names of the visited nodes that have a record, in visiting order
RECURSIVE EmittedNames(_)
EmittedNames(n) ==
    IF n = 0 THEN <<>>
    ELSE IF Name(n) \in DOMAIN named_node /\ Name(n) \in Tops
         THEN Append(EmittedNames(n - 1), Name(n))
         ELSE EmittedNames(n - 1)

\* C14: an exception raised in the loop body of gen_IR (by a routine or by the
\* layer_map lookup) is caught and printed, once; from then on no node is
\* visited and no record, handle or target layer is added; the finally block
\* runs next and writes the debug prototxt, which is written exactly once,
\* before anything is marked or built, and holds the records appended before the
\* exception, one per emitted node in visiting order.
C14_ExceptionStopsWalkAndFinalizes ==
    /\ [](/\ Len(printed) <= 1
          /\ Len(proto_files) <= 1
          /\ (pc \in {"build", "save", "done", "raised"} \/ marked # <<>>)
             => Len(proto_files) = 1
          /\ (printed # <<>> /\ pc # "finally")
             => (/\ proto_files = <<main_layers>>
                 /\ [k \in DOMAIN main_layers |-> main_layers[k].top]
                      = [k \in DOMAIN EmittedNames(idx) |-> <<EmittedNames(idx)[k]>>]
                 /\ \A k \in DOMAIN main_layers :
                      main_layers[k].name = replace_dot(main_layers[k].top[1])))
    /\ [][/\ pc = "except"
             => (/\ printed' = Append(printed, exc)
                 /\ exc # "None"
                 /\ pc' = "finally")
          /\ (pc = "finally" /\ printed # <<>>)
             => (/\ proto_files' = <<strip_names(main_layers)>>
                 /\ marked' = <<>>
                 /\ pc' = "mark")
          /\ WalkRaised
             => (/\ idx' = idx
                 /\ named_node' = named_node
                 /\ named_layer' = named_layer
                 /\ network' = network
                 /\ [k \in DOMAIN main_layers' |-> main_layers'[k].top]
                      = [k \in DOMAIN main_layers |-> main_layers[k].top])]_vars

\* C14 witness: a Resize routine raised on its mode after two records were
\* appended, with a node of the visiting order left unvisited, and the debug
\* prototxt holds the two records.
C14_Witness ==
    /\ pc = "mark"
    /\ printed = <<"RuntimeError">>
    /\ idx < pytorch_graph.size
    /\ Len(proto_files) = 1
    /\ Len(proto_files[1]) = 2

\* the attributes and parameters the routine of the node reads are present and
\* have a supported value
ValidAttrs(node) ==
    CASE node.type \in {"onnx::Conv", "onnx::ConvTranspose"} ->
            /\ "pads" \in DOMAIN node.attrs
            /\ Len(node.attrs.pads) \in {2, 4}
            /\ "weight" \in node.params
      [] node.type = "onnx::MaxPool" ->
            /\ "pads" \in DOMAIN node.attrs
            /\ Len(node.attrs.pads) \in {2, 4}
            /\ "strides" \in DOMAIN node.attrs
            /\ "kernel_shape" \in DOMAIN node.attrs
      [] node.type = "onnx::Resize" ->
            /\ node.attrs.coordinate_transformation_mode
                 \in {"pytorch_half_pixel", "asymmetric"}
            /\ node.attrs.nearest_mode = "floor"
      [] node.type = "onnx::Reshape" ->
            "shape" \in DOMAIN node.attrs \/ node.output_shape # <<>>
      [] node.type = "onnx::Concat" -> "axis" \in DOMAIN node.attrs
      [] OTHER -> TRUE

\* C15: a visited node whose category has a routine, whose attributes are valid
\* and all of whose required inputs are in the Reachability Set is translated:
\* no exception leaves its routine, a handle is registered under its name and
\* the name is in the Reachability Set, whether its inputs are registered as
\* the bare tensor of a Data node or as layers.
C15_TranslatedWhateverTheInput ==
    (/\ Visited
     /\ HasRoutine(current_node)
     /\ ValidAttrs(current_node)
     /\ \A k \in DOMAIN RequiredInputs(current_node) :
            RequiredInputs(current_node)[k] \in Tops)
    => (/\ ~WalkRaised
        /\ current_node.name \in DOMAIN named_layer
        /\ current_node.name \in Tops)

PadNodeTypes == {"onnx::Conv", "onnx::ConvTranspose", "onnx::MaxPool"}

\* the visited node n has a record and the target layer named n has the first
\* two values of the node's pads as its padding
PaddedByFirstTwo(n) ==
    /\ n \in Tops
    /\ \E e \in DOMAIN network :
         /\ network[e].name = n
         /\ network[e].params.padding
              = <<named_node[n].attrs.pads[1], named_node[n].attrs.pads[2]>>

GateInputs(node) ==
    IF node.type = "onnx::Add" THEN Slice(node.in_edges, 0, 2)
    ELSE IF node.type \in {"onnx::Concat", "onnx::Transpose"} THEN node.in_edges
    ELSE Slice(node.in_edges, 0, 1)

\* the category of the node maps to rename_Common or to a name without routine
GoesToCommon(node) ==
    /\ node.type \in DOMAIN layer_map
    /\ layer_map[node.type] \notin RenameMethods \ {"Common"}

\* C17: a visit that skips its node, through rename_Common or because is_main
\* fails on the inputs the routine checks, leaves main_layers, named_layer, the
\* weight registry and the network as they were and raises nothing; named_node
\* gains the node.
C17_SkipIsEffectFree ==
    [][(/\ pc = "walk"
        /\ idx' = idx + 1
        /\ \/ GoesToCommon(current_node')
           \/ HasRoutine(current_node') /\ ~is_main(GateInputs(current_node')))
       => (/\ main_layers' = main_layers
           /\ named_layer' = named_layer
           /\ weights' = weights
           /\ network' = network
           /\ exc' = "None"
           /\ named_node' = (current_node'.real_name :> current_node') @@ named_node)]_vars

\* C17 witness: a Conv skipped by its gate behind a node skipped by
\* rename_Common, after the input was translated.
C17_Witness ==
    /\ Visited
    /\ pc = "walk"
    /\ current_node.type = "onnx::Conv"
    /\ current_node.in_edges[1] \notin Tops
    /\ GoesToCommon(named_node[current_node.in_edges[1]])
    /\ Len(main_layers) = 1
    /\ Len(network) = 1
    /\ weights = <<>>
    /\ Len(warnings) = 1

\* C18: the names registered in named_layer are the tops of the records of
\* main_layers, and each registered name is the top of exactly one record.
C18_GateAndRegistryAgree ==
    /\ DOMAIN named_layer = Tops
    /\ \A n \in DOMAIN named_layer :
         Cardinality({l \in DOMAIN main_layers : n \in Range(main_layers[l].top)}) = 1

\* C18 witness: a Resize visit aborted after it added its target layer, with a
\* Flatten registered before it under its input's handle.
C18_Witness ==
    /\ pc = "except"
    /\ exc = "RuntimeError"
    /\ current_node.type = "onnx::Resize"
    /\ network[Len(network)].op = "resize"
    /\ current_node.name \notin DOMAIN named_layer
    /\ \E n \in DOMAIN named_layer :
         /\ named_node[n].type = "onnx::Flatten"
         /\ named_layer[n] = named_layer[named_node[n].in_edges[1]]

\* C19: a MaxPool node whose input is materialized as a layer and whose pads
\* are valid is translated and registered whether or not strides and
\* kernel_shape are present, and no exception leaves its routine.
C19_MaxPoolDefaults ==
    (/\ Visited
     /\ current_node.type = "onnx::MaxPool"
     /\ current_node.in_edges[1] \in Tops
     /\ named_layer[current_node.in_edges[1]].kind = "ILayer"
     /\ Len(current_node.attrs.pads) \in {2, 4})
    => (/\ ~WalkRaised
        /\ current_node.name \in DOMAIN named_layer
        /\ current_node.name \in Tops)

====
